---- MODULE Spec2Model ----
(***************************************************************************)
(* Model of yapympi's asynchronous request manager                         *)
(* (src/src/yapympi/request_manager.py) together with the exception        *)
(* classes it raises (src/src/yapympi/error.py) and the MPI primitive it   *)
(* drives (declared in src/src/yapympi/cmpi_build.py).                     *)
(*                                                                         *)
(* The manager is single threaded: every public method is one atomic       *)
(* action.  The MPI runtime is the environment: it finishes started        *)
(* operations at times of its own choosing (NetProgress) and answers the   *)
(* calls MPI_Isend / MPI_Irecv / MPI_Testsome.                             *)
(***************************************************************************)
EXTENDS Integers, Sequences, FiniteSets, TLC

\* ---------------------------------------------------------------- bounds
\* capacity argument of RequestManager(capacity)
Capacity == 3
\* number of operations the MPI runtime is asked to start in one run
MaxOps == 4
\* the caller attaches one of the handles 1..NHandles to an operation
NHandles == 2
\* longest list of error codes handed to an exception constructor
MaxErrs == 2
\* NMSGS of the drain scripts
NMsgs == 4
\* longest message handed to a send
MaxLen == 2

\* ------------------------------------------------------------- constants
MPI_SUCCESS == 0
MPI_ERR_IN_STATUS == 17
\* outcount written by MPI_Testsome when the list holds no active request
MPI_UNDEFINED == 0 - 32766
\* value MPI stores in a request variable once the request is freed
MPI_REQUEST_NULL == 0 - 1

None == 0
Handles == 1..NHandles
\* error classes a single call or a single operation can fail with
ErrorCodes == {1, 2}
\* peer rank and tag used by the submitted operations
Peer == 1
Tag == 0

Slots == 0..(Capacity - 1)
Tokens == 1..MaxOps

VARIABLES
    size,       \* self.size
    requests,   \* self.requests  : MPI_Request[capacity]
    handles,    \* self.handles   : python list
    indices,    \* self.indices   : int[capacity]        (scratch)
    outcount,   \* self.outcount  : int*                 (scratch)
    statuses,   \* self.statuses  : MPI_Status[capacity] (scratch)
    ops,        \* the MPI runtime's table of started operations
    result,     \* outcome of the last call
    returned,   \* handles handed back by normal returns of test, in order
    drain,      \* the receiving rank of tests/scripts/waitsomeall.py, waitanyall.py
    xfer        \* one message on its way from a send call to a receive call

vars == <<size, requests, handles, indices, outcount, statuses, ops, result, returned,
          drain, xfer>>

\* ------------------------------------------------------- python helpers
Max(a, b) == IF a > b THEN a ELSE b

\* python values that `range` may be applied to
PyInt(n) == [type |-> "int", val |-> n]
PyList(s) == [type |-> "list", val |-> s]

\* range(x): the integers 0..x-1 for an int, TypeError for anything else
PyRange(x) ==
    IF x.type = "int"
    THEN [exc |-> "none", val |-> [k \in 1..Max(x.val, 0) |-> k - 1]]
    ELSE [exc |-> "TypeError", val |-> <<>>]

\* BaseException.__init__(*args, **kwargs): rejects keyword arguments
BaseExceptionInit(nkwargs) == IF nkwargs > 0 THEN "TypeError" ELSE "none"

RECURSIVE InsertDesc(_, _)
InsertDesc(x, s) ==
    IF s = <<>> THEN <<x>>
    ELSE IF x >= Head(s) THEN <<x>> \o s
    ELSE <<Head(s)>> \o InsertDesc(x, Tail(s))

\* sorted(s, reverse=True)
RECURSIVE SortedReverse(_)
SortedReverse(s) == IF s = <<>> THEN <<>> ELSE InsertDesc(Head(s), SortedReverse(Tail(s)))

\* all orderings of the elements of a finite set
Orderings(S) ==
    {s \in [1..Cardinality(S) -> S] : \A a, b \in 1..Cardinality(S) : a # b => s[a] # s[b]}

\* ------------------------------------------------------------ MPI status
\* MPI_Status: the three public fields plus the opaque rest of the struct,
\* which is modelled as the identity of the operation the status describes.
ZeroStatus == [MPI_SOURCE |-> 0, MPI_TAG |-> 0, MPI_ERROR |-> 0, priv |-> 0]

\* an operation slot of the runtime that has not been started yet
NoOp == [phase |-> "unused", err |-> 0, h |-> None]

\* outcome record of a call: what was called, how it ended (normal return or
\* the exception raised), the primitive's return code, the value of size
\* when the call began, the index argument (of _del_request), the lists
\* returned or carried by the exception, the operations the primitive
\* completed during the call, the arguments of a directly called function or
\* constructor, the incount of every MPI_Testsome call made, the (idx, size)
\* of every _del_request call made, and the erridxs of base.MPIStatusErrors
Outcome(op, kind, retcode) ==
    [op |-> op, kind |-> kind, retcode |-> retcode, size0 |-> size, idx |-> None,
     handles |-> <<>>, statuses |-> <<>>, errcodes |-> <<>>, errstrs |-> <<>>,
     resolved |-> <<>>, args |-> <<>>, polled |-> <<>>, dels |-> <<>>,
     erridxs |-> <<>>]

\* ---------------------------------------------------------------- Init
\* the drain script before its receiving branch starts
NoDrain ==
    [mode |-> "none", pc |-> "idle", reqs |-> <<>>, bufs |-> <<>>, nfinished |-> 0,
     indices |-> <<>>, arrived |-> {}, reaped |-> {}, counted |-> [k \in 1..NMsgs |-> 0]]

\* no message has been handed to a send call
NoXfer ==
    [pc |-> "idle", sender |-> "none", isbytes |-> FALSE, msg |-> <<>>, cbuf |-> <<>>,
     count |-> 0, freed |-> FALSE, wire |-> <<>>, rbuf |-> <<>>, rcount |-> 0,
     retcode |-> MPI_SUCCESS]

\* RequestManager.__init__: ffi.new zero-fills every array
InitManager ==
    /\ size = 0
    /\ requests = [i \in Slots |-> 0]
    /\ handles = <<>>
    /\ indices = [i \in Slots |-> 0]
    /\ outcount = 0
    /\ statuses = [i \in Slots |-> ZeroStatus]
    /\ ops = [t \in Tokens |-> NoOp]
    /\ result = [op |-> "init", kind |-> "none", retcode |-> MPI_SUCCESS, size0 |-> 0,
                 idx |-> None, handles |-> <<>>, statuses |-> <<>>, errcodes |-> <<>>,
                 errstrs |-> <<>>, resolved |-> <<>>, args |-> <<>>, polled |-> <<>>,
                 dels |-> <<>>, erridxs |-> <<>>]
    /\ returned = <<>>

Init ==
    /\ InitManager
    /\ drain = NoDrain
    /\ xfer = NoXfer

\* tokens the runtime has issued so far, and the next one it will issue
Started == {t \in Tokens : ops[t].phase # "unused"}
NextToken == Cardinality(Started) + 1

\* operations the runtime has not yet completed through a completion call
InFlight == {t \in Tokens : ops[t].phase \in {"active", "ready"}}

\* -------------------------------------------------------- error_string
\* MPI_Error_string either finds the description of a code or fails
LookupOutcomes == {"found", "failed"}

\* MPI_Error_string(errorcode, string, resultlen): return code and text
MPI_Error_string(errorcode, lk) ==
    IF lk = "found"
    THEN [retcode |-> MPI_SUCCESS, string |-> <<"description of", errorcode>>]
    ELSE [retcode |-> 1, string |-> <<>>]

\* error.error_string(errorcode); the descriptions of the MPI runtime are
\* ASCII, so decode("ascii") returns them unchanged
error_string(errorcode, lk) ==
    LET r == MPI_Error_string(errorcode, lk)
    IN  IF r.retcode # MPI_SUCCESS
        THEN <<"Unknown MPI Error: ", errorcode>>
        ELSE r.string

\* an MPIError whose __init__ hands a keyword argument to the base class
MPIErrorKeyword(errcode) ==
    [kind |-> BaseExceptionInit(1), errcodes |-> <<>>, handles |-> <<>>]

\* error.MPIError(errcode): __init__ calls super().__init__(errcode) and
\* stores errcode; the errorstr attribute is ErrorStr below
MPIError(errcode) ==
    IF BaseExceptionInit(0) # "none"
    THEN [kind |-> BaseExceptionInit(0), errcodes |-> <<>>, handles |-> <<>>]
    ELSE [kind |-> "MPIError", errcodes |-> <<errcode>>, handles |-> <<>>]

\* error.MPIStatusErrors(errcodes, handles): __init__ first calls
\* super().__init__(errcodes, handles=None), i.e. passes one keyword argument;
\* then handles=None becomes [None] * len(errcodes), any other handles list
\* is asserted to be as long as errcodes; hs is <<"None">> for handles=None,
\* <<"list", l>> for a list l
MPIStatusErrors(errcodes, hs) ==
    IF BaseExceptionInit(1) # "none"
    THEN [kind |-> BaseExceptionInit(1), errcodes |-> <<>>, handles |-> <<>>]
    ELSE IF hs[1] = "None"
    THEN [kind |-> "MPIStatusErrors", errcodes |-> errcodes,
          handles |-> [k \in 1..Len(errcodes) |-> None]]
    ELSE IF Len(hs[2]) # Len(errcodes)
    THEN [kind |-> "AssertionError", errcodes |-> <<>>, handles |-> <<>>]
    ELSE [kind |-> "MPIStatusErrors", errcodes |-> errcodes, handles |-> hs[2]]

\* the errstrs attribute: [error_string(c) for c in self.errcodes], where
\* lks[k] is the outcome of the k-th description lookup
ErrorStrs(errcodes, lks) ==
    [k \in 1..Len(errcodes) |-> error_string(errcodes[k], lks[k])]

\* ------------------------------------------------------------ submit
\* a capacity test that lets a full manager through
AtCapacityOffByOne == size > Capacity

\* the capacity test that opens send and recv
AtCapacity == size = Capacity

\* ffi.addressof(self.requests[self.size]): self.requests[i] is an item of an
\* MPI_Request[] array (an integer or a pointer, cmpi_build.py), while cffi
\* documents addressof for struct, union and array objects; the call either
\* yields a pointer to the slot or raises TypeError, and both are kept.
AddressOfOutcomes == {"pointer", "TypeError"}

\* a start that lets the runtime write the token into the first slot
StartOkFirstSlot(op, h) ==
    /\ NextToken <= MaxOps
    /\ requests' = [requests EXCEPT ![0] = NextToken]
    /\ ops' = [ops EXCEPT ![NextToken] = [phase |-> "active", err |-> 0, h |-> h]]
    /\ handles' = Append(handles, h)
    /\ size' = size + 1
    /\ result' = Outcome(op, "ok", MPI_SUCCESS)

\* a start that counts the slot without recording the handle
StartOkNoHandle(op, h) ==
    /\ NextToken <= MaxOps
    /\ requests' = [requests EXCEPT ![size] = NextToken]
    /\ ops' = [ops EXCEPT ![NextToken] = [phase |-> "active", err |-> 0, h |-> h]]
    /\ handles' = handles
    /\ size' = size + 1
    /\ result' = Outcome(op, "ok", MPI_SUCCESS)

\* MPI_Isend / MPI_Irecv returning MPI_SUCCESS: the runtime starts a new
\* operation and writes its token through request_p into slot `size`.
StartOk(op, h) ==
    /\ NextToken <= MaxOps
    /\ requests' = [requests EXCEPT ![size] = NextToken]
    /\ ops' = [ops EXCEPT ![NextToken] = [phase |-> "active", err |-> 0, h |-> h]]
    /\ handles' = Append(handles, h)
    /\ size' = size + 1
    /\ result' = Outcome(op, "ok", MPI_SUCCESS)

\* a failed start that records the handle and counts the slot before raising
StartFailsCommitted(op, e) ==
    /\ requests' = requests
    /\ result' = [Outcome(op, "MPIError", e) EXCEPT !.errcodes = <<e>>]
    /\ handles' = Append(handles, None)
    /\ size' = size + 1
    /\ UNCHANGED ops

\* MPI_Isend / MPI_Irecv returning an error code: nothing is started; the
\* request variable behind request_p is left alone or set to the null request.
StartFails(op, e) ==
    /\ \E r \in {requests[size], MPI_REQUEST_NULL} :
          requests' = [requests EXCEPT ![size] = r]
    /\ LET x == MPIError(e)
       IN  result' = [Outcome(op, x.kind, e) EXCEPT !.errcodes = x.errcodes]
    /\ UNCHANGED <<size, handles, ops>>

\* body shared by RequestManager.send and RequestManager.recv
Submit(op, h) ==
    /\ IF AtCapacity
       THEN /\ result' = Outcome(op, "ValueError", MPI_SUCCESS)
            /\ UNCHANGED <<size, requests, handles, ops>>
       ELSE IF size \notin Slots
       THEN /\ result' = Outcome(op, "IndexError", MPI_SUCCESS)
            /\ UNCHANGED <<size, requests, handles, ops>>
       ELSE \E a \in AddressOfOutcomes :
              IF a = "TypeError"
              THEN /\ result' = Outcome(op, "TypeError", MPI_SUCCESS)
                   /\ UNCHANGED <<size, requests, handles, ops>>
              ELSE \/ StartOk(op, h)
                   \/ \E e \in ErrorCodes : StartFails(op, e)
    /\ UNCHANGED <<indices, outcount, statuses, returned, drain, xfer>>

\* RequestManager.send(buf, dest, tag, handle)
Send(h) == Submit("send", h)

\* RequestManager.recv(buf, source, tag, handle)
Recv(h) == Submit("recv", h)

\* ------------------------------------------------------- MPI runtime
\* the transfer behind a started operation finishes, well or with an error
NetProgress(t, e) ==
    /\ ops[t].phase = "active"
    /\ ops' = [ops EXCEPT ![t].phase = "ready", ![t].err = e]
    /\ UNCHANGED <<size, requests, handles, indices, outcount, statuses, result, returned,
                   drain, xfer>>

\* slots of the polled prefix whose request is still known to the runtime
ActiveSlots(incount, reqs) ==
    {i \in Slots : i < incount /\ reqs[i] \in Tokens /\ ops[reqs[i]].phase \in {"active", "ready"}}

\* slots of the polled prefix whose operation has finished and can be completed
ReadySlots(incount, reqs) ==
    {i \in Slots : i < incount /\ reqs[i] \in Tokens /\ ops[reqs[i]].phase = "ready"}

\* MPI_Testsome(incount, requests, outcount, indices, statuses) completing the
\* slots listed in `order`: outcount is their number (MPI_UNDEFINED when the
\* list holds no active request), the first outcount entries of indices are
\* their positions, the first outcount entries of statuses their statuses,
\* and their request variables become MPI_REQUEST_NULL (the runtime frees the
\* requests and forgets their error).  The MPI_ERROR field is written only
\* when the call returns MPI_ERR_IN_STATUS.
MPI_Testsome(incount, reqs, idxbuf, stbuf, order) ==
    LET k == Len(order)
        done == {order[j] : j \in 1..k}
        failed == \E j \in 1..k : ops[reqs[order[j]]].err # MPI_SUCCESS
    IN  [incount  |-> incount,
         retcode  |-> IF failed THEN MPI_ERR_IN_STATUS ELSE MPI_SUCCESS,
         outcount |-> IF ActiveSlots(incount, reqs) = {} THEN MPI_UNDEFINED ELSE k,
         indices  |-> [i \in Slots |-> IF i < k THEN order[i + 1] ELSE idxbuf[i]],
         statuses |-> [i \in Slots |->
                         IF i < k
                         THEN [MPI_SOURCE |-> Peer, MPI_TAG |-> Tag,
                               MPI_ERROR |-> IF failed THEN ops[reqs[order[i + 1]]].err
                                             ELSE stbuf[i].MPI_ERROR,
                               priv |-> reqs[order[i + 1]]]
                         ELSE stbuf[i]],
         requests |-> [i \in Slots |-> IF i \in done THEN MPI_REQUEST_NULL ELSE reqs[i]],
         ops      |-> [t \in Tokens |->
                         IF \E i \in done : reqs[i] = t
                         THEN [ops[t] EXCEPT !.phase = "done", !.err = MPI_SUCCESS] ELSE ops[t]],
         resolved |-> [j \in 1..k |-> reqs[order[j]]]]

\* -------------------------------------------------------- _del_request
\* the manager's own fields, as one value
Manager(sz, reqs, hs) == [size |-> sz, requests |-> reqs, handles |-> hs]

\* the raise that closes _del_request is outside both branches
DelRequestRaises(m, idx) == TRUE

\* a removal that moves the last slot's token into slot idx but leaves the
\* handle of slot idx where it is
DelRequestTokenOnly(m, idx) ==
    LET last == m.size - 1
        m1 == IF idx = last
              THEN [m EXCEPT !.handles = SubSeq(m.handles, 1, last), !.size = last]
              ELSE IF idx < last
              THEN [m EXCEPT !.requests = [m.requests EXCEPT ![idx] = m.requests[last]],
                             !.handles = SubSeq(m.handles, 1, last),
                             !.size = last]
              ELSE m
    IN  [m |-> m1, exc |-> IF DelRequestRaises(m, idx) THEN "ValueError" ELSE "none"]

\* a removal that leaves a slot whose handle is None in place
DelRequestKeepsNone(m, idx) ==
    LET last == m.size - 1
        m1 == IF idx <= last /\ m.handles[idx + 1] = None
              THEN m
              ELSE IF idx = last
              THEN [m EXCEPT !.handles = SubSeq(m.handles, 1, last), !.size = last]
              ELSE IF idx < last
              THEN [m EXCEPT !.requests = [m.requests EXCEPT ![idx] = m.requests[last]],
                             !.handles = SubSeq([m.handles EXCEPT ![idx + 1] = m.handles[last + 1]], 1, last),
                             !.size = last]
              ELSE m
    IN  [m |-> m1, exc |-> IF DelRequestRaises(m, idx) THEN "ValueError" ELSE "none"]

\* RequestManager._del_request(idx)
DelRequest(m, idx) ==
    LET last == m.size - 1
        m1 == IF idx = last
              THEN [m EXCEPT !.handles = SubSeq(m.handles, 1, last), !.size = last]
              ELSE IF idx < last
              THEN [m EXCEPT !.requests = [m.requests EXCEPT ![idx] = m.requests[last]],
                             !.handles = SubSeq([m.handles EXCEPT ![idx + 1] = m.handles[last + 1]], 1, last),
                             !.size = last]
              ELSE m
    IN  [m |-> m1, exc |-> IF DelRequestRaises(m, idx) THEN "ValueError" ELSE "none"]

\* for idx in <seq>: self._del_request(idx), stopping at the first exception
RECURSIVE DelAll(_, _)
DelAll(m, seq) ==
    IF seq = <<>> THEN [m |-> m, exc |-> "none"]
    ELSE LET d == DelRequest(m, Head(seq))
         IN  IF d.exc # "none" THEN d ELSE DelAll(d.m, Tail(seq))

\* the (idx, size) of the calls of _del_request that DelAll makes
RECURSIVE DelTrace(_, _)
DelTrace(m, seq) ==
    IF seq = <<>> THEN <<>>
    ELSE LET d == DelRequest(m, Head(seq))
             c == <<[idx |-> Head(seq), size |-> m.size]>>
         IN  IF d.exc # "none" THEN c ELSE c \o DelTrace(d.m, Tail(seq))

\* ----------------------------------------------------------------- test
\* the loop "for i in range(self.size): if self.statuses[i].MPI_ERROR != ..."
\* of the MPI_ERR_IN_STATUS branch: the slots i, in increasing order
RECURSIVE ErrorSlots(_, _, _)
ErrorSlots(i, sz, stbuf) ==
    IF i >= sz THEN <<>>
    ELSE IF stbuf[i].MPI_ERROR # MPI_SUCCESS
    THEN <<i>> \o ErrorSlots(i + 1, sz, stbuf)
    ELSE ErrorSlots(i + 1, sz, stbuf)

\* the MPI_ERR_IN_STATUS branch: errorcodes and handles read at the same i
TestErrInStatus(m, stbuf) ==
    LET es == ErrorSlots(0, m.size, stbuf)
        x  == MPIStatusErrors([k \in 1..Len(es) |-> stbuf[es[k]].MPI_ERROR],
                              <<"list", [k \in 1..Len(es) |-> m.handles[es[k] + 1]]>>)
    IN  [m |-> m, kind |-> x.kind, handles |-> x.handles, statuses |-> <<>>,
         errcodes |-> x.errcodes, dels |-> <<>>]

\* the part of test after a successful MPI_Testsome with outcount != 0
TestCompleted(m, oc, idxbuf) ==
    LET idxlist == [k \in 1..Max(oc, 0) |-> idxbuf[k - 1]]
        r == PyRange(PyList(idxlist))
        none == [m |-> m, kind |-> r.exc, handles |-> <<>>, statuses |-> <<>>,
                 errcodes |-> <<>>, dels |-> <<>>]
    IN  IF r.exc # "none" THEN none
        ELSE IF \E k \in 1..Len(r.val) : r.val[k] >= Len(m.handles)
        THEN [none EXCEPT !.kind = "IndexError"]
        ELSE LET hs == [k \in 1..Len(r.val) |-> m.handles[r.val[k] + 1]]
                 d  == DelAll(m, SortedReverse(idxlist))
                 tr == DelTrace(m, SortedReverse(idxlist))
             IN  IF d.exc # "none"
                 THEN [none EXCEPT !.m = d.m, !.kind = d.exc, !.dels = tr]
                 ELSE [none EXCEPT !.m = d.m, !.kind = "ok", !.handles = hs,
                                   !.statuses = r.val, !.dels = tr]

\* an emptiness test that only catches negative counts
NoneCompletedNegative(oc) == oc < 0

\* "if not outcount"
NoneCompleted(oc) == oc = 0

\* what test does with the answer of MPI_Testsome
TestAfterPrimitive(m, retcode, oc, idxbuf, stbuf) ==
    IF retcode # MPI_SUCCESS
    THEN IF retcode = MPI_ERR_IN_STATUS
         THEN TestErrInStatus(m, stbuf)
         ELSE LET x == MPIError(retcode)
              IN  [m |-> m, kind |-> x.kind, handles |-> <<>>, statuses |-> <<>>,
                   errcodes |-> x.errcodes, dels |-> <<>>]
    ELSE IF NoneCompleted(oc)
    THEN [m |-> m, kind |-> "empty", handles |-> <<>>, statuses |-> <<>>, errcodes |-> <<>>,
          dels |-> <<>>]
    ELSE TestCompleted(m, oc, idxbuf)

\* the state after test has called the primitive with answer p
TestFinish(p) ==
    LET t == TestAfterPrimitive(Manager(size, p.requests, handles),
                                p.retcode, p.outcount, p.indices, p.statuses)
    IN  /\ indices' = p.indices
        /\ outcount' = p.outcount
        /\ statuses' = p.statuses
        /\ ops' = p.ops
        /\ size' = t.m.size
        /\ requests' = t.m.requests
        /\ handles' = t.m.handles
        /\ returned' = IF t.kind = "ok" THEN returned \o t.handles ELSE returned
        /\ result' = [op |-> "test", kind |-> t.kind, retcode |-> p.retcode,
                      size0 |-> size, idx |-> None,
                      handles |-> t.handles, statuses |-> t.statuses,
                      errcodes |-> t.errcodes, errstrs |-> <<>>,
                      resolved |-> p.resolved, args |-> <<>>,
                      polled |-> <<p.incount>>, dels |-> t.dels, erridxs |-> <<>>]

\* the scratch buffers after the two memsets and outcount[0] = 0
ClearedIndices == [i \in Slots |-> 0]
ClearedStatuses == [i \in Slots |-> ZeroStatus]

\* a test that hands the whole arena to the primitive
TestWholeArena ==
    /\ IF size = 0
       THEN /\ result' = Outcome("test", "empty", MPI_SUCCESS)
            /\ UNCHANGED <<size, requests, handles, indices, outcount, statuses, ops, returned>>
       ELSE \/ \E order \in Orderings(ReadySlots(Capacity, requests)) :
                 TestFinish(MPI_Testsome(Capacity, requests, ClearedIndices, ClearedStatuses, order))
            \/ \E e \in ErrorCodes :
                 TestFinish([incount |-> Capacity,
                             retcode |-> e, outcount |-> 0, indices |-> ClearedIndices,
                             statuses |-> ClearedStatuses, requests |-> requests,
                             ops |-> ops, resolved |-> <<>>])
    /\ UNCHANGED <<drain, xfer>>

\* a test without the early return for an empty manager
TestNoEarlyReturn ==
    /\ \/ \E order \in Orderings(ReadySlots(size, requests)) :
              TestFinish(MPI_Testsome(size, requests, ClearedIndices, ClearedStatuses, order))
       \/ \E e \in ErrorCodes :
              TestFinish([incount |-> size,
                          retcode |-> e, outcount |-> 0, indices |-> ClearedIndices,
                          statuses |-> ClearedStatuses, requests |-> requests,
                          ops |-> ops, resolved |-> <<>>])
    /\ UNCHANGED <<drain, xfer>>

\* RequestManager.test()
Test ==
    /\ IF size = 0
       THEN /\ result' = Outcome("test", "empty", MPI_SUCCESS)
            /\ UNCHANGED <<size, requests, handles, indices, outcount, statuses, ops, returned>>
       ELSE \/ \E order \in Orderings(ReadySlots(size, requests)) :
                 TestFinish(MPI_Testsome(size, requests, ClearedIndices, ClearedStatuses, order))
            \/ \E e \in ErrorCodes :
                 TestFinish([incount |-> size,
                             retcode |-> e, outcount |-> 0, indices |-> ClearedIndices,
                             statuses |-> ClearedStatuses, requests |-> requests,
                             ops |-> ops, resolved |-> <<>>])
    /\ UNCHANGED <<drain, xfer>>

\* ------------------------------------------------------------- behaviour
Next ==
    \/ \E h \in Handles : Send(h)
    \/ \E h \in Handles : Recv(h)
    \/ Test
    \/ \E t \in Tokens, e \in {MPI_SUCCESS} \cup ErrorCodes : NetProgress(t, e)

Spec == Init /\ [][Next]_vars

\* the round trip of the specification: only sends, every transfer finishes
\* well, the primitive's calls succeed, and the caller keeps polling
SendStarts == \E h \in Handles : Send(h) /\ result'.kind \in {"ok", "ValueError"}
TestCallOk == Test /\ result'.retcode = MPI_SUCCESS
TransferOk == \E t \in Tokens : NetProgress(t, MPI_SUCCESS)

RoundTripNext == SendStarts \/ TestCallOk \/ TransferOk

RoundTripSpec ==
    Init /\ [][RoundTripNext]_vars /\ WF_vars(TestCallOk) /\ WF_vars(TransferOk)

\* ------------------------------------------ _del_request called directly
\* a call of RequestManager._del_request(idx) on the manager as it stands
DelCall(idx) ==
    /\ LET d == DelRequest(Manager(size, requests, handles), idx)
       IN  /\ size' = d.m.size
           /\ requests' = d.m.requests
           /\ handles' = d.m.handles
           /\ result' = [Outcome("del", d.exc, MPI_SUCCESS) EXCEPT !.idx = idx]
    /\ UNCHANGED <<indices, outcount, statuses, ops, returned, drain, xfer>>

\* submits and removals
DelNext ==
    \/ \E h \in Handles : Send(h)
    \/ \E h \in Handles : Recv(h)
    \/ \E idx \in 0..Capacity : DelCall(idx)

DelSpec == Init /\ [][DelNext]_vars

\* submits, polls, and transfers that end in success or in one error class:
\* the runs in which a poll meets completed and failed operations
TransferEnds == \E t \in Tokens, e \in {MPI_SUCCESS, 1} : NetProgress(t, e)

PollNext ==
    \/ \E h \in Handles : Send(h)
    \/ \E h \in Handles : Recv(h)
    \/ Test
    \/ TransferEnds

PollSpec == Init /\ [][PollNext]_vars

\* --------------------------------- error_string and the exception classes
\* lists of error codes and handle arguments given to the constructors
ErrCodeLists == UNION {[1..n -> ErrorCodes] : n \in 0..MaxErrs}
HandleArgs ==
    {<<"None">>} \cup {<<"list", l>> : l \in UNION {[1..n -> Handles] : n \in 0..MaxErrs}}

\* a call error_string(errorcode)
ErrorStringCall(errorcode, lk) ==
    /\ result' = [Outcome("error_string", "ok", MPI_Error_string(errorcode, lk).retcode)
                    EXCEPT !.errstrs = <<error_string(errorcode, lk)>>,
                           !.args = <<errorcode, lk>>]
    /\ UNCHANGED <<size, requests, handles, indices, outcount, statuses, ops, returned,
                   drain, xfer>>

\* raise MPIError(errcode)
NewMPIError(errcode, lk) ==
    /\ LET x == MPIError(errcode)
       IN  result' = [Outcome("MPIError", x.kind, errcode)
                        EXCEPT !.errcodes = x.errcodes,
                               !.errstrs = IF x.kind = "MPIError"
                                           THEN ErrorStrs(x.errcodes, <<lk>>) ELSE <<>>,
                               !.args = <<errcode, lk>>]
    /\ UNCHANGED <<size, requests, handles, indices, outcount, statuses, ops, returned,
                   drain, xfer>>

\* raise MPIStatusErrors(errcodes, handles)
NewMPIStatusErrors(errcodes, hs, lks) ==
    /\ LET x == MPIStatusErrors(errcodes, hs)
       IN  result' = [Outcome("MPIStatusErrors", x.kind, MPI_ERR_IN_STATUS)
                        EXCEPT !.errcodes = x.errcodes,
                               !.handles = x.handles,
                               !.errstrs = IF x.kind = "MPIStatusErrors"
                                           THEN ErrorStrs(x.errcodes, lks) ELSE <<>>,
                               !.args = <<errcodes, hs, lks>>]
    /\ UNCHANGED <<size, requests, handles, indices, outcount, statuses, ops, returned,
                   drain, xfer>>

ErrNext ==
    \/ \E c \in ErrorCodes, lk \in LookupOutcomes : ErrorStringCall(c, lk)
    \/ \E c \in ErrorCodes, lk \in LookupOutcomes : NewMPIError(c, lk)
    \/ \E cs \in ErrCodeLists, hs \in HandleArgs :
          \E lks \in [1..Len(cs) -> LookupOutcomes] : NewMPIStatusErrors(cs, hs, lks)

ErrSpec == Init /\ [][ErrNext]_vars

\* ------------------------------------------ base.check_error_in_status
\* lists of statuses handed to check_error_in_status
StatusLists ==
    UNION {[1..n -> {[ZeroStatus EXCEPT !.MPI_ERROR = e] : e \in {MPI_SUCCESS} \cup ErrorCodes}] :
             n \in 0..(MaxErrs + 1)}
RetCodes == {MPI_SUCCESS, MPI_ERR_IN_STATUS} \cup ErrorCodes

\* base.MPIError(errcode): __init__ stores errcode and its text
Base_MPIError(errcode) ==
    [kind |-> "MPIError", errcodes |-> <<errcode>>, erridxs |-> <<>>]

\* base.MPIStatusErrors(erridxs, errcodes): __init__ stores both lists and
\* the texts of the codes
Base_MPIStatusErrors(erridxs, errcodes) ==
    [kind |-> "MPIStatusErrors", errcodes |-> errcodes, erridxs |-> erridxs]

\* a scan that lists every index
StatusErrorIdxsAll(idx, sts) == [k \in 1..(Len(sts) - idx) |-> idx + k - 1]

\* "for idx in range(len(statuses)): if statuses[idx].MPI_ERROR !=
\* lib.MPI_SUCCESS: erridxs.append(idx)", from idx on
RECURSIVE StatusErrorIdxs(_, _)
StatusErrorIdxs(idx, sts) ==
    IF idx >= Len(sts) THEN <<>>
    ELSE IF sts[idx + 1].MPI_ERROR # MPI_SUCCESS
    THEN <<idx>> \o StatusErrorIdxs(idx + 1, sts)
    ELSE StatusErrorIdxs(idx + 1, sts)

\* base.check_error_in_status(retcode, statuses): the exception raised, or
\* kind "none" for a normal return
check_error_in_status(retcode, sts) ==
    IF retcode = MPI_SUCCESS
    THEN [kind |-> "none", errcodes |-> <<>>, erridxs |-> <<>>]
    ELSE IF retcode = MPI_ERR_IN_STATUS
    THEN LET erridxs == StatusErrorIdxs(0, sts)
         IN  Base_MPIStatusErrors(erridxs,
                                  [j \in 1..Len(erridxs) |-> sts[erridxs[j] + 1].MPI_ERROR])
    ELSE Base_MPIError(retcode)

\* base.check_error(retcode)
check_error(retcode) ==
    IF retcode # MPI_SUCCESS THEN Base_MPIError(retcode)
    ELSE [kind |-> "none", errcodes |-> <<>>, erridxs |-> <<>>]

\* a call check_error_in_status(retcode, statuses)
CheckErrorInStatusCall(retcode, sts) ==
    /\ LET x == check_error_in_status(retcode, sts)
       IN  result' = [Outcome("check_error_in_status", x.kind, retcode)
                        EXCEPT !.errcodes = x.errcodes, !.erridxs = x.erridxs,
                               !.args = <<retcode, sts>>]
    /\ UNCHANGED <<size, requests, handles, indices, outcount, statuses, ops, returned,
                   drain, xfer>>

\* a call check_error(retcode)
CheckErrorCall(retcode) ==
    /\ LET x == check_error(retcode)
       IN  result' = [Outcome("check_error", x.kind, retcode)
                        EXCEPT !.errcodes = x.errcodes, !.args = <<retcode>>]
    /\ UNCHANGED <<size, requests, handles, indices, outcount, statuses, ops, returned,
                   drain, xfer>>

CheckNext ==
    \/ \E retcode \in RetCodes, sts \in StatusLists : CheckErrorInStatusCall(retcode, sts)
    \/ \E retcode \in RetCodes : CheckErrorCall(retcode)

CheckSpec == Init /\ [][CheckNext]_vars

\* ------------------------------------------------- the drain scripts
\* del s[i] of a python list, i counted from 0
DelItem(s, i) == SubSeq(s, 1, i) \o SubSeq(s, i + 2, Len(s))

\* receives posted so far; receive k has request k and buffer k
Posted == IF drain.pc = "post" THEN Len(drain.reqs) ELSE NMsgs

\* the receiving branch starts: reqs, bufs = [], [] in either script
DrainInit ==
    /\ InitManager
    /\ xfer = NoXfer
    /\ \E mode \in {"waitsome", "waitany"} :
          drain = [NoDrain EXCEPT !.mode = mode, !.pc = "post"]

\* one round of "for _ in range(NMSGS)": buf = bytearray(10),
\* req = mpi.irecv(buf, ...), reqs.append(req), bufs.append(buf)
DrainPost ==
    /\ drain.pc = "post"
    /\ LET k == Len(drain.reqs) + 1
       IN  drain' = [drain EXCEPT !.reqs = Append(@, k), !.bufs = Append(@, k),
                                  !.pc = IF k = NMsgs THEN "loop" ELSE "post"]
    /\ UNCHANGED <<size, requests, handles, indices, outcount, statuses, ops, result,
                   returned, xfer>>

\* the message matching receive k has arrived (rank 0 sends NMSGS messages)
DrainArrive(k) ==
    /\ k <= Posted
    /\ k \notin drain.arrived
    /\ drain' = [drain EXCEPT !.arrived = @ \cup {k}]
    /\ UNCHANGED <<size, requests, handles, indices, outcount, statuses, ops, result,
                   returned, xfer>>

\* positions of reqs_arr = list_to_array("MPI_Request", reqs) whose request
\* is still active, and those whose receive has finished
DrainActive == {p \in 0..(Len(drain.reqs) - 1) : drain.reqs[p + 1] \notin drain.reaped}
DrainReady == {p \in DrainActive : drain.reqs[p + 1] \in drain.arrived}

\* a loop that deletes in the order MPI_Waitsome returned the indices
DrainOrderAsReturned(idxs) == idxs

\* sorted(indices, reverse=True)
DrainOrder(idxs) == SortedReverse(idxs)

\* "for i in <seq>: print(.., bufs[i]); del bufs[i]; del reqs[i];
\* nfinished += 1", an IndexError ending the script
RECURSIVE DrainDelete(_, _)
DrainDelete(d, seq) ==
    IF seq = <<>> THEN d
    ELSE LET i == Head(seq)
         IN  IF i < 0 - Len(d.bufs) \/ i >= Len(d.bufs)
             THEN [d EXCEPT !.pc = "aborted"]
             ELSE LET p == IF i < 0 THEN i + Len(d.bufs) ELSE i
                      k == d.reqs[p + 1]
                  IN  DrainDelete([d EXCEPT !.bufs = DelItem(@, p), !.reqs = DelItem(@, p),
                                            !.nfinished = @ + 1,
                                            !.counted = [@ EXCEPT ![k] = @ + 1]],
                                  Tail(seq))

\* one round of "while nfinished < NMSGS" of waitsomeall.py: mpi.waitsome
\* blocks until some active request has finished and returns the indices of
\* one or more finished requests, in any order
DrainWaitsome ==
    /\ drain.pc = "loop"
    /\ drain.mode = "waitsome"
    /\ \E S \in SUBSET DrainReady :
          /\ DrainActive # {} => S # {}
          /\ \E order \in Orderings(S) :
                LET d0 == [drain EXCEPT !.indices = order,
                                        !.reaped = @ \cup {drain.reqs[p + 1] : p \in S}]
                    d1 == DrainDelete(d0, DrainOrder(order))
                IN  drain' = IF d1.pc = "loop" /\ d1.nfinished >= NMsgs
                             THEN [d1 EXCEPT !.pc = "done"] ELSE d1
    /\ UNCHANGED <<size, requests, handles, indices, outcount, statuses, ops, result,
                   returned, xfer>>

\* one round of "for _ in range(NMSGS)" of waitanyall.py: mpi.waitany blocks
\* until an active request has finished and returns its index, or returns
\* MPI_UNDEFINED when no request is active
DrainWaitany ==
    /\ drain.pc = "loop"
    /\ drain.mode = "waitany"
    /\ \E i \in IF DrainActive = {} THEN {MPI_UNDEFINED} ELSE DrainReady :
          LET d0 == [drain EXCEPT !.indices = <<i>>,
                                  !.reaped = @ \cup {drain.reqs[p + 1] : p \in {i} \cap DrainReady}]
              d1 == DrainDelete(d0, <<i>>)
          IN  drain' = IF d1.pc = "loop" /\ d1.nfinished >= NMsgs
                       THEN [d1 EXCEPT !.pc = "done"] ELSE d1
    /\ UNCHANGED <<size, requests, handles, indices, outcount, statuses, ops, result,
                   returned, xfer>>

DrainNext ==
    \/ DrainPost
    \/ \E k \in 1..NMsgs : DrainArrive(k)
    \/ DrainWaitsome
    \/ DrainWaitany

\* the script runs on, and every message rank 0 sends arrives
DrainSpec ==
    /\ DrainInit /\ [][DrainNext]_vars
    /\ WF_vars(DrainPost) /\ WF_vars(DrainWaitsome) /\ WF_vars(DrainWaitany)
    /\ \A k \in 1..NMsgs : WF_vars(DrainArrive(k))

\* ----------------------------------------------- one message end to end
Bytes == 0..2
Messages == UNION {[1..n -> Bytes] : n \in 0..MaxLen}
BufSizes == 0..(MaxLen + 2)
Senders == {"send", "isend", "RequestManager.send"}

\* ffi.new("char[]", b) for a bytes object b: a new array holding the bytes
\* and a terminating zero, owned by the cdata object
NewCharArray(b) == b \o <<0>>

\* ffi.from_buffer("char[]", b): the memory of the caller's object itself
FromBuffer(b) == b

\* what a read of `count` bytes at cbuf yields: the array's content, or
\* anything once the array has been freed
ReadBuffer(cbuf, count, freed) ==
    IF freed THEN [1..count -> Bytes] ELSE {cbuf}

\* base.send, base.isend or RequestManager.send called with msg.  MPI_Send
\* reads the buffer before it returns.  MPI_Isend copies the buffer before it
\* returns or leaves the read to the runtime; when the function returns, the
\* local cbuf goes out of scope, and an array made by ffi.new is freed.
XferSend(sender, isbytes, msg) ==
    /\ xfer.pc = "idle"
    /\ LET cbuf == IF isbytes THEN NewCharArray(msg) ELSE FromBuffer(msg)
           x == [xfer EXCEPT !.sender = sender, !.isbytes = isbytes, !.msg = msg,
                             !.cbuf = cbuf, !.count = Len(cbuf)]
       IN  \/ /\ sender = "RequestManager.send"
              /\ xfer' = [x EXCEPT !.pc = "raised"]
           \/ \E e \in ErrorCodes : xfer' = [x EXCEPT !.pc = "raised", !.retcode = e]
           \/ xfer' = [x EXCEPT !.pc = "onwire", !.wire = cbuf,
                                !.freed = isbytes]
           \/ /\ sender # "send"
              /\ xfer' = [x EXCEPT !.pc = "posted", !.freed = isbytes]
    /\ UNCHANGED <<size, requests, handles, indices, outcount, statuses, ops, result,
                   returned, drain>>

\* the runtime reads the send buffer of a posted send
XferTransmit ==
    /\ xfer.pc = "posted"
    /\ \E w \in ReadBuffer(xfer.cbuf, xfer.count, xfer.freed) :
          xfer' = [xfer EXCEPT !.pc = "onwire", !.wire = w]
    /\ UNCHANGED <<size, requests, handles, indices, outcount, statuses, ops, result,
                   returned, drain>>

\* the matching receive into bytearray(b), and get_count on its status; a
\* message longer than the buffer is an error of the receive
XferRecv(b) ==
    /\ xfer.pc = "onwire"
    /\ IF xfer.count <= b
       THEN xfer' = [xfer EXCEPT !.pc = "received",
                                 !.rbuf = xfer.wire \o [k \in 1..(b - xfer.count) |-> 0],
                                 !.rcount = xfer.count]
       ELSE \E e \in ErrorCodes :
              xfer' = [xfer EXCEPT !.pc = "received", !.retcode = e,
                                   !.rbuf = SubSeq(xfer.wire, 1, b)]
    /\ UNCHANGED <<size, requests, handles, indices, outcount, statuses, ops, result,
                   returned, drain>>

XferNext ==
    \/ \E sender \in Senders, isbytes \in BOOLEAN, msg \in Messages :
          XferSend(sender, isbytes, msg)
    \/ XferTransmit
    \/ \E b \in BufSizes : XferRecv(b)

XferSpec == Init /\ [][XferNext]_vars

\* ------------------------------------------------------ derived values
\* number of positions of seq that hold x
Count(x, seq) == Cardinality({k \in 1..Len(seq) : seq[k] = x})

\* operations a completion call of some poll has completed
Completed == {t \in Tokens : ops[t].phase = "done"}

\* tokens stored in the occupied prefix [0, size)
PrefixTokens == {requests[i] : i \in {j \in Slots : j < size}}

\* the handles of the occupied prefix are exactly the handles of the
\* operations in flight, counted with multiplicity
HandlesAreInFlight ==
    /\ Len(handles) = size
    /\ \A h \in Handles :
          Count(h, handles) = Cardinality({t \in InFlight : ops[t].h = h})

\* some call of send or recv
SubmitStep == \E h \in Handles : Send(h) \/ Recv(h)

\* ================================================================ claims

DistinctHandles == \A t, u \in Started : t # u => ops[t].h # ops[u].h

\* every submitted handle was returned by a poll exactly once, nothing else
\* was returned, and the manager is empty
RoundTripDone ==
    /\ size = 0
    /\ Len(returned) = Cardinality(Started)
    /\ \A t \in Started : Count(ops[t].h, returned) = 1

C4_SubmitAtCapacityRejected ==
    [][(size = Capacity /\ result'.op \in {"send", "recv"} /\ SubmitStep) =>
          /\ result'.kind = "ValueError"
          /\ UNCHANGED <<size, requests, handles, ops>>]_vars

\* C4 witness: a submit has just been rejected by a full manager
C4_Witness ==
    /\ result.op \in {"send", "recv"}
    /\ result.kind = "ValueError"
    /\ size = Capacity
    /\ Len(handles) = Capacity

C6_PollIdempotent ==
    [][(/\ size > 0 /\ result'.op = "test"
        /\ result'.retcode = MPI_SUCCESS /\ outcount' = 0 /\ Test) =>
          /\ result'.kind = "empty"
          /\ result'.handles = <<>> /\ result'.statuses = <<>>
          /\ UNCHANGED <<size, requests, handles, ops, returned>>
          /\ (result.op = "test" /\ result.kind = "empty") => UNCHANGED vars]_vars

\* C6 witness: a poll of a non-empty manager has just found nothing complete
C6_Witness ==
    /\ result.op = "test"
    /\ result.kind = "empty"
    /\ result.retcode = MPI_SUCCESS
    /\ size > 0
    /\ outcount = 0
    /\ InFlight # {}

FailedEntries ==
    {<<j, statuses[j].MPI_ERROR, ops[statuses[j].priv].h>> :
        j \in {i \in Slots : i < outcount /\ statuses[i].MPI_ERROR # MPI_SUCCESS}}

C11_UniformFailureKeepsState ==
    [][(/\ result'.op = "test"
        /\ result'.retcode \notin {MPI_SUCCESS, MPI_ERR_IN_STATUS} /\ Test) =>
          /\ result'.kind = "MPIError"
          /\ result'.errcodes = <<result'.retcode>>
          /\ UNCHANGED <<size, requests, handles, ops, returned>>]_vars

\* C11 witness: a poll of a manager with operations in flight has just failed
\* as a whole
C11_Witness ==
    /\ result.op = "test"
    /\ result.kind = "MPIError"
    /\ result.retcode \in ErrorCodes
    /\ size >= 2
    /\ InFlight # {}

\* C12: when MPI_Isend / MPI_Irecv returns a non-success code, send / recv
\* raises MPIError and commits nothing: size, the handle list and the tokens
\* of the occupied slots [0, size) are unchanged.
C12_FailedStartCommitsNothing ==
    [][(/\ result'.op \in {"send", "recv"}
        /\ result'.retcode # MPI_SUCCESS /\ SubmitStep) =>
          /\ result'.kind = "MPIError"
          /\ result'.errcodes = <<result'.retcode>>
          /\ UNCHANGED <<size, handles, ops>>
          /\ \A i \in Slots : i < size => requests'[i] = requests[i]]_vars

\* C12 witness: a start has just failed in a manager that holds operations
C12_Witness ==
    /\ result.op \in {"send", "recv"}
    /\ result.kind = "MPIError"
    /\ result.retcode \in ErrorCodes
    /\ size >= 1 /\ size < Capacity

ExpectedString(errorcode, lk) ==
    IF lk = "found" THEN <<"description of", errorcode>>
    ELSE <<"Unknown MPI Error: ", errorcode>>

\* C17: error_string never raises: it returns the runtime's description when
\* the lookup succeeds and the fallback text when it fails; so constructing
\* MPIError, or MPIStatusErrors from lists of equal length, yields that
\* exception with one text per code and no other error.
C17_ErrorStringNeverRaises ==
    /\ result.op = "error_string" =>
          /\ result.kind = "ok"
          /\ result.errstrs = <<ExpectedString(result.args[1], result.args[2])>>
    /\ result.op = "MPIError" =>
          /\ result.kind = "MPIError"
          /\ result.errstrs = <<ExpectedString(result.args[1], result.args[2])>>
    /\ (/\ result.op = "MPIStatusErrors"
        /\ (result.args[2][1] = "list" => Len(result.args[2][2]) = Len(result.args[1]))) =>
          /\ result.kind = "MPIStatusErrors"
          /\ result.errstrs = [k \in 1..Len(result.args[1]) |->
                                  ExpectedString(result.args[1][k], result.args[3][k])]

\* reqs and bufs are aligned, a receive is counted when and only when a wait
\* call has completed it, at most once, and is then gone from the lists
DrainConsistent ==
    /\ drain.pc # "aborted"
    /\ drain.reqs = drain.bufs
    /\ \A k \in 1..NMsgs :
          /\ drain.counted[k] = (IF k \in drain.reaped THEN 1 ELSE 0)
          /\ Count(k, drain.reqs) = (IF k <= Posted /\ k \notin drain.reaped THEN 1 ELSE 0)
    /\ drain.nfinished = Cardinality(drain.reaped)
    /\ drain.reaped \subseteq drain.arrived

\* the loop has ended with both lists empty and every receive counted once
DrainFinished ==
    /\ drain.pc = "done"
    /\ drain.reqs = <<>> /\ drain.bufs = <<>>
    /\ drain.nfinished = NMsgs
    /\ \A k \in 1..NMsgs : drain.counted[k] = 1

\* C18: in the drain loops reqs[i] and bufs[i] always belong to the same
\* receive, every receive is counted finished exactly once, and the loop
\* ends with both lists empty once all NMSGS messages have completed.
C18_DrainLoops ==
    /\ []DrainConsistent
    /\ [](drain.pc = "done" => DrainFinished)
    /\ (drain.pc = "post") ~> DrainFinished

\* C18 witness: the wait-some loop has ended, its last batch holding two
\* indices that MPI_Waitsome returned in increasing order
C18_Witness ==
    /\ drain.mode = "waitsome"
    /\ DrainFinished
    /\ Len(drain.indices) >= 2
    /\ drain.indices[1] < drain.indices[2]

\* C19: a bytes object of length n handed to send, isend or
\* RequestManager.send and received into a buffer of at least n + 1 bytes is
\* received without error with count n + 1, and the first n bytes of the
\* receive buffer equal the message.
C19_BytesArriveWithTerminator ==
    (/\ xfer.pc = "received" /\ xfer.isbytes
     /\ Len(xfer.rbuf) >= Len(xfer.msg) + 1) =>
        /\ xfer.retcode = MPI_SUCCESS
        /\ xfer.rcount = Len(xfer.msg) + 1
        /\ SubSeq(xfer.rbuf, 1, Len(xfer.msg)) = xfer.msg

\* C20: _del_request(i) with i = size - 1 drops the last slot and changes no
\* other slot; with i < size - 1 it writes the token and the handle of slot
\* size - 1 into slot i and drops the last slot; either way size decreases by
\* one, the handle list is as long as size, the occupied prefix holds the
\* tokens it held except the one of slot i, and every slot other than i and
\* the old last one keeps its token and its handle.
C20_SwapRemoval ==
    [][\A idx \in Slots :
          (/\ result'.op = "del" /\ result'.idx = idx /\ idx < size /\ DelCall(idx)) =>
              /\ size' = size - 1
              /\ Len(handles') = size'
              /\ PrefixTokens' = PrefixTokens \ {requests[idx]}
              /\ Cardinality(PrefixTokens') = size'
              /\ idx = size - 1 => requests' = requests
              /\ idx < size - 1 =>
                    /\ requests'[idx] = requests[size - 1]
                    /\ handles'[idx + 1] = handles[size]
              /\ \A i \in Slots : (i < size - 1 /\ i # idx) =>
                    requests'[i] = requests[i] /\ handles'[i + 1] = handles[i + 1]]_vars

\* C20 witness: a removal in the middle has just moved the last slot, whose
\* handle differs from the removed one, into the gap
C20_Witness ==
    /\ result.op = "del"
    /\ result.idx < result.size0 - 1
    /\ size = result.size0 - 1
    /\ size >= 2
    /\ requests[result.idx] = requests[size]
    /\ handles[result.idx + 1] # handles[1]

C23_PollsPrimitiveOnce ==
    result.op = "test" => result.polled = <<result.size0>>

\* C23 amended: a call of test with size > 0 calls MPI_Testsome exactly once,
\* with incount = size; a call with size = 0 does not call it.
C23_PollsPrimitiveOnceUnlessEmpty ==
    result.op = "test" =>
        result.polled = (IF result.size0 = 0 THEN <<>> ELSE <<result.size0>>)

\* C23 witness: a poll of two or more occupied slots has called the primitive
C23_Witness ==
    /\ result.op = "test"
    /\ result.size0 >= 2
    /\ result.polled = <<result.size0>>
    /\ size < Capacity

HandleMaps == [Handles -> Handles \cup {None}]

\* a handle list with every handle replaced by its image
Relabel(f, hs) == [k \in 1..Len(hs) |-> f[hs[k]]]

\* the answers MPI_Testsome can give to a poll of the current state
PollAnswers ==
    {MPI_Testsome(size, requests, ClearedIndices, ClearedStatuses, order) :
        order \in Orderings(ReadySlots(size, requests))}
    \cup {[incount |-> size, retcode |-> e, outcount |-> 0, indices |-> ClearedIndices,
           statuses |-> ClearedStatuses, requests |-> requests, ops |-> ops,
           resolved |-> <<>>] : e \in ErrorCodes}

\* a poll of the state with relabelled handles and the same answer of the
\* primitive ends in the same outcome (kind, size, tokens, statuses, codes,
\* removals), its handles being the relabelled ones
PollIgnoresHandleValues ==
    \A p \in PollAnswers :
        LET t1 == TestAfterPrimitive(Manager(size, p.requests, handles),
                                     p.retcode, p.outcount, p.indices, p.statuses)
        IN  \A f \in HandleMaps :
              TestAfterPrimitive(Manager(size, p.requests, Relabel(f, handles)),
                                 p.retcode, p.outcount, p.indices, p.statuses)
                = [t1 EXCEPT !.m.handles = Relabel(f, @), !.handles = Relabel(f, @)]

\* the same for a removal of any occupied slot
RemovalIgnoresHandleValues ==
    \A idx \in Slots :
        LET d1 == DelRequest(Manager(size, requests, handles), idx)
        IN  \A f \in HandleMaps :
              DelRequest(Manager(size, requests, Relabel(f, handles)), idx)
                = [d1 EXCEPT !.m.handles = Relabel(f, @)]

\* a submit leaves the stored handles alone, at most appends its own, and
\* with any other handle it can end in the same outcome, size and tokens,
\* that handle being the one appended
SubmitIgnoresHandleValues ==
    \A h \in Handles :
        (result'.op \in {"send", "recv"} /\ (Send(h) \/ Recv(h))) =>
            /\ handles' = handles \/ handles' = Append(handles, h)
            /\ \A h2 \in Handles \ {h}, o \in {result'.op}, k \in {result'.kind},
                  c \in {result'.retcode}, z \in {size'}, r \in {requests'} :
                  ENABLED (/\ Submit(o, h2)
                           /\ result'.kind = k /\ result'.retcode = c
                           /\ size' = z /\ requests' = r
                           /\ handles' = IF z = size THEN handles ELSE Append(handles, h2))

\* C26: the manager never inspects or compares handles: replacing the handle
\* values of a run by other values (repeated ones and None included) changes
\* neither size, nor the tokens, nor the kinds of the outcomes, nor the
\* positions of the handles, only the handle values.
C26_HandlesOpaque ==
    /\ [](PollIgnoresHandleValues /\ RemovalIgnoresHandleValues)
    /\ [][SubmitIgnoresHandleValues]_vars

\* C26 witness: a poll has just ended in partial failure in a manager that
\* holds two different handles, one of them with a failed operation
C26_Witness ==
    /\ result.op = "test"
    /\ result.retcode = MPI_ERR_IN_STATUS
    /\ size >= 2
    /\ handles[1] # handles[2]
    /\ statuses[0].MPI_ERROR # MPI_SUCCESS

\* C27: check_error_in_status(retcode, statuses) returns normally iff
\* retcode is MPI_SUCCESS; for MPI_ERR_IN_STATUS it raises MPIStatusErrors
\* whose erridxs are exactly the indices of the statuses with a non-success
\* code, in increasing order, errcodes[j] being the code at erridxs[j]; for
\* any other code it raises MPIError carrying retcode.
C27_CheckErrorInStatus ==
    result.op = "check_error_in_status" =>
        LET rc == result.args[1]
            sts == result.args[2]
            bad == {i \in 0..(Len(sts) - 1) : sts[i + 1].MPI_ERROR # MPI_SUCCESS}
        IN  /\ (result.kind = "none") <=> (rc = MPI_SUCCESS)
            /\ rc = MPI_ERR_IN_STATUS =>
                  /\ result.kind = "MPIStatusErrors"
                  /\ Len(result.erridxs) = Cardinality(bad)
                  /\ {result.erridxs[j] : j \in 1..Len(result.erridxs)} = bad
                  /\ \A j \in 1..(Len(result.erridxs) - 1) :
                        result.erridxs[j] < result.erridxs[j + 1]
                  /\ Len(result.errcodes) = Len(result.erridxs)
                  /\ \A j \in 1..Len(result.erridxs) :
                        result.errcodes[j] = sts[result.erridxs[j] + 1].MPI_ERROR
            /\ rc \notin {MPI_SUCCESS, MPI_ERR_IN_STATUS} =>
                  /\ result.kind = "MPIError"
                  /\ result.errcodes = <<rc>>

\* C27 witness: of three statuses the first is clean and the other two carry
\* different errors
C27_Witness ==
    /\ result.op = "check_error_in_status"
    /\ result.kind = "MPIStatusErrors"
    /\ result.erridxs = <<1, 2>>
    /\ result.errcodes[1] # result.errcodes[2]

\* C28: an error.MPIStatusErrors built from a list of codes and either no
\* handles or as many handles is a record whose errcodes, errstrs and handles
\* have the same length, entry j of each belonging to the j-th code; without
\* handles the handles list is that many None values.
C28_StatusErrorsWellFormed ==
    (/\ result.op = "MPIStatusErrors"
     /\ (result.args[2][1] = "list" => Len(result.args[2][2]) = Len(result.args[1]))) =>
        LET n == Len(result.args[1])
        IN  /\ result.kind = "MPIStatusErrors"
            /\ result.errcodes = result.args[1]
            /\ Len(result.errstrs) = n /\ Len(result.handles) = n
            /\ \A j \in 1..Len(result.errstrs) :
                  result.errstrs[j][2] = result.errcodes[j]
            /\ result.handles = (IF result.args[2][1] = "None"
                                 THEN [j \in 1..n |-> None] ELSE result.args[2][2])

\* C29: a poll of an empty manager returns the empty result, raises nothing
\* and changes nothing: size stays 0 and the handle list stays empty.
C29_EmptyPollChangesNothing ==
    [][(size = 0 /\ result'.op = "test" /\ Test) =>
          /\ result'.kind = "empty"
          /\ result'.handles = <<>> /\ result'.statuses = <<>>
          /\ size' = 0 /\ handles' = <<>>
          /\ UNCHANGED <<size, requests, handles, indices, outcount, statuses, ops, returned>>]_vars

\* C29 witness: an empty manager whose first slot a failed start has written
\* has just been polled
C29_Witness ==
    /\ result.op = "test"
    /\ result.size0 = 0
    /\ result.kind = "empty"
    /\ size = 0 /\ handles = <<>>
    /\ requests[0] = MPI_REQUEST_NULL

\* C30: in every reachable state the handle list is as long as size.
C30_HandleListAsLongAsSize == Len(handles) = size

\* C30 witness: a poll has just raised in a manager holding two or more slots
C30_Witness ==
    /\ result.op = "test"
    /\ result.kind \notin {"empty", "ok"}
    /\ size >= 2
    /\ Len(handles) = size

====
